---- MODULE Spec2Model ----
(***************************************************************************)
(* Model of zap: the task re-ordering run (main -> Prioritizer.            *)
(* ReorderTasksByPriority -> GeminiClient.AnalyzeAndPrioritizeTasks ->     *)
(* Service.MoveTask) and the subtask pass (GeminiClient.SuggestSubtasks,   *)
(* CreateSubtasks, AnalyzeAndCreateSubtasks).                              *)
(* SpecMain is main as a whole (setup, re-ordering run, subtask loop,      *)
(* final listing); SpecPause is the variant of ReorderTasksByPriority that *)
(* ranks the tasks of all matching lists in one batch.                     *)
(* SpecAuth is Config.WaitForCallback with its goroutines, under weak      *)
(* fairness of every goroutine step.                                       *)
(*                                                                         *)
(* Strings that the code compares or measures (position strings) are       *)
(* sequences of byte codes: 0..9 are the digits '0'..'9', 10 is a byte     *)
(* above every digit (a letter).  Go's len() and < on strings are the      *)
(* length and the bytewise lexicographic order of these sequences.         *)
(* Priorities are float64 in the code; the model draws them from integers  *)
(* on both sides of the bounds 0 and 100.                                  *)
(***************************************************************************)
EXTENDS Integers, Sequences, FiniteSets, TLC

VARIABLES
    catalog,        \* the store's list catalog: set of [title, id]
    store,          \* the store's tasks: list id -> sequence of [id, parent, due], in list order
    pc,             \* position of the running workflow
    exit,           \* process outcome: "running", "ok" (main returned), "fatal" (log.Fatal)
    li,             \* index into targetLists of the iteration of the loop over the lists
    taskList,       \* id of the list the current iteration resolved ("" before it did)
    topLevelTasks,  \* the batch submitted to the inference call
    resp,           \* the inference outcome a call of AnalyzeAndPrioritizeTasks on its own, or
                    \* the SuggestSubtasks call of the current iteration, received
    result,         \* what that call returned: [ok, recs, called]
    priorities,     \* the validated records after sort.Slice
    mi,             \* index of the next record to move
    previousTaskID, \* predecessor handed to the next MoveTask call
    err,            \* the error the workflow function returned (NoErr while none)
    moves,          \* MoveTask calls issued in the current iteration: [list, task, previous,
                    \* parent (the task's parent in the store when the call was issued), ok]
    fetched,        \* target-list indexes whose tasks were fetched (ListTasks issued)
    ranked,         \* target-list indexes whose batch was sent to the inference service
    completed,      \* target-list indexes whose iteration ran to its end without error
    tasks,          \* subtask pass: the batch fetched for the current list
    suggestions,    \* subtask pass: the suggestions CreateSubtasks works through
    si,             \* index of the suggestion being materialized
    ti,             \* index of the next title of that suggestion
    parentTask,     \* the parent task the last Tasks.Get returned
    subcalls,       \* store calls CreateSubtasks issued in the current iteration: [op, sugg
                    \* (index of the suggestion), ok, list, param (task id of a get, parent
                    \* parameter of an insert)] and, for an insert, body (the subtask)
    created,        \* target-list indexes whose subtask pass reported success
    failed,         \* target-list indexes whose subtask pass logged an error
    visited,        \* target-list indexes whose iteration of the subtask loop was entered
    allTasks,       \* pause variant: the tasks of all matching lists, each with the list it
                    \* was fetched from (field from)
    taskToListMap,  \* pause variant: task id -> list id
    tasksByList,    \* pause variant: list id -> sequence of [task, priority]
    todo,           \* pause variant: list ids the update loop has not taken yet
    codeChan,       \* callback wait: buffer of the channel of authorization codes (capacity 1)
    errChan,        \* callback wait: buffer of the channel of errors (capacity 1)
    wpc,            \* callback wait: position of WaitForCallback ("idle", "select", "returned")
    outcomes,       \* callback wait: what WaitForCallback returned, in order
    server,         \* the local callback server: "idle", "starting", "listening", "failed", "closed"
    spc,            \* position of the goroutine that runs ListenAndServe
    hpc,            \* request -> position of its handler ("none" before the request arrived)
    shutdowns,      \* server.Shutdown goroutines started and not yet run
    cancelled       \* ctx.Done() is closed

subLocals == <<tasks, suggestions, si, ti, parentTask, subcalls, created, failed, visited>>

pauseLocals == <<allTasks, taskToListMap, tasksByList, todo>>

authLocals == <<codeChan, errChan, wpc, outcomes, server, spc, hpc, shutdowns, cancelled>>

reorderLocals == <<topLevelTasks, priorities, mi, previousTaskID, moves, fetched, ranked, completed>>

vars == <<catalog, store, pc, exit, li, taskList, topLevelTasks, resp, result,
          priorities, mi, previousTaskID, err, moves, fetched, ranked, completed,
          tasks, suggestions, si, ti, parentTask, subcalls, created, failed, visited,
          allTasks, taskToListMap, tasksByList, todo,
          codeChan, errChan, wpc, outcomes, server, spc, hpc, shutdowns, cancelled>>

\* the variables of the task workflows, which the callback wait does not touch
workflowVars == <<catalog, store, pc, exit, li, taskList, topLevelTasks, resp, result,
                  priorities, mi, previousTaskID, err, moves, fetched, ranked, completed,
                  tasks, suggestions, si, ti, parentTask, subcalls, created, failed, visited,
                  allTasks, taskToListMap, tasksByList, todo>>

---------------------------------------------------------------------------
(* Bounds of the model *)

\* most top-level tasks in the list "In Progress" during the re-ordering run
MaxTasks == 3
\* most tasks in a batch handed to AnalyzeAndPrioritizeTasks on its own
MaxBatch == 2
\* most top-level tasks in the list "In Progress" during the subtask pass
MaxParents == 2
\* most callback requests that reach the local server during one wait
MaxRequests == 3

---------------------------------------------------------------------------
(* Program constants and input alphabets *)

targetLists == <<"Backlog", "In Progress">>

ListIdOf(title) == IF title = "Backlog" THEN "L1" ELSE "L2"
ListIds == {"L1", "L2"}

AllIds == <<"A", "B", "C", "D", "E", "F">>
\* a subtask of task A, and an identifier no task of the store has
SubId == "S"
UnknownId == "X"

NoDue == ""
SomeDue == "2024-06-01T00:00:00Z"

Pos1 == <<0, 0, 0, 0, 1>>
PosShort == <<0, 0, 7>>
PosLong == <<0, 0, 0, 0, 0, 0, 7>>
PosLetters == <<10, 10, 10, 10, 10>>

NoTask == [id |-> "", parent |-> "", due |-> ""]

\* the variables of the subtask pass before it runs
SubLocalsIdle ==
    /\ tasks = <<>>
    /\ suggestions = <<>>
    /\ si = 1
    /\ ti = 1
    /\ parentTask = NoTask
    /\ subcalls = <<>>
    /\ created = {}
    /\ failed = {}
    /\ visited = {}

\* the variables of the pause variant before it runs
PauseLocalsIdle ==
    /\ allTasks = <<>>
    /\ taskToListMap = <<>>
    /\ tasksByList = <<>>
    /\ todo = {}

Requests == 1..MaxRequests

\* the variables of the callback wait while no wait runs
AuthLocalsIdle ==
    /\ codeChan = <<>>
    /\ errChan = <<>>
    /\ wpc = "idle"
    /\ outcomes = <<>>
    /\ server = "idle"
    /\ spc = "idle"
    /\ hpc = [h \in Requests |-> "none"]
    /\ shutdowns = 0
    /\ cancelled = FALSE

NoErr == [kind |-> "none", task |-> "", list |-> ""]
NoResp == [kind |-> "none", items |-> <<>>]
NoResult == [ok |-> FALSE, recs |-> <<>>, called |-> FALSE]

Min(a, b) == IF a < b THEN a ELSE b

---------------------------------------------------------------------------
(* Pure helpers *)

RECURSIVE Digits(_)
\* decimal digits of n >= 0, most significant first
Digits(n) == IF n < 10 THEN <<n>> ELSE Digits(n \div 10) \o <<n % 10>>

RECURSIVE PadLeft(_, _)
PadLeft(s, w) == IF Len(s) >= w THEN s ELSE PadLeft(<<0>> \o s, w)

\* fmt.Sprintf("%05d", n): at least five digits, zero-padded on the left
Sprintf05d(n) == PadLeft(Digits(n), 5)

RECURSIVE StrLess(_, _)
\* Go's a < b on strings: bytewise lexicographic order
StrLess(a, b) ==
    IF b = <<>> THEN FALSE
    ELSE IF a = <<>> THEN TRUE
    ELSE IF Head(a) # Head(b) THEN Head(a) < Head(b)
    ELSE StrLess(Tail(a), Tail(b))

\* all sequences over S of a length in lens
SeqsOf(S, lens) == UNION {[1..n -> S] : n \in lens}

Ids(recs) == [i \in 1..Len(recs) |-> recs[i].TaskID]

TaskIdsOf(ts) == {ts[i].id : i \in 1..Len(ts)}

IsTopLevel(t) == t.parent = ""

---------------------------------------------------------------------------
(* GeminiClient.AnalyzeAndPrioritizeTasks *)

\* The per-record repair of the validation loop; i is the 1-based index of the
\* record, which is the code's i+1.
\* (variant that repairs only negative priorities)
RepairPriority_LowOnly(p) == IF p < 0 THEN 50 ELSE p

\* (variant that clamps to the nearer bound)
RepairPriority_Clamp(p) == IF p < 0 THEN 0 ELSE IF p > 100 THEN 100 ELSE p

RepairPriority(p) == IF p < 0 \/ p > 100 THEN 50 ELSE p

\* (variant that numbers the records from zero)
RepairPosition_ZeroBased(pos, i) == IF Len(pos) # 5 THEN Sprintf05d(i - 1) ELSE pos

RepairPosition(pos, i) == IF Len(pos) # 5 THEN Sprintf05d(i) ELSE pos

RepairRecord(r, i) ==
    [TaskID |-> r.TaskID,
     Priority |-> RepairPriority(r.Priority),
     NewPosition |-> RepairPosition(r.NewPosition, i)]

\* the count check of the validation
CountMatches(items, ts) == Len(items) = Len(ts)

\* What the call returns for the batch ts when the inference service
\* answers r: r.kind is "callfail" (GenerateContent failed), "empty" (no
\* candidate), "badjson" (json.Unmarshal failed on the cleaned text) or "array"
\* (the cleaned text decoded to r.items).
AnalyzeAndPrioritizeTasks(ts, r) ==
    IF r.kind # "array"
        THEN [ok |-> FALSE, recs |-> <<>>, called |-> TRUE]
    ELSE IF ~CountMatches(r.items, ts)
        THEN [ok |-> FALSE, recs |-> <<>>, called |-> TRUE]
    ELSE [ok |-> TRUE,
          recs |-> [i \in 1..Len(r.items) |-> RepairRecord(r.items[i], i)],
          called |-> TRUE]

\* sort.Slice by NewPosition: any arrangement of the records that is ascending
\* in the position string (sort.Slice is not stable, so equal positions may
\* come out in any order)
SortedByPosition(recs) ==
    LET n == Len(recs)
        perms == {f \in [1..n -> 1..n] : \A i, j \in 1..n : i # j => f[i] # f[j]}
    IN  {[i \in 1..n |-> recs[f[i]]] : f \in
            {g \in perms : \A i \in 1..(n - 1) :
                ~StrLess(recs[g[i + 1]].NewPosition, recs[g[i]].NewPosition)}}

---------------------------------------------------------------------------
(* The task store (remote collaborator) *)

IndexOf(seq, id) == CHOOSE i \in 1..Len(seq) : seq[i].id = id

Without(seq, id) == SelectSeq(seq, LAMBDA t : t.id # id)

\* the store accepts a move of a task of the list to the front, or to right
\* after another top-level task of the list
CanMove(seq, id, previous) ==
    /\ id \in TaskIdsOf(seq)
    /\ \/ previous = ""
       \/ /\ previous # id
          /\ \E i \in 1..Len(seq) : seq[i].id = previous /\ IsTopLevel(seq[i])

\* the list after Tasks.Move(id) with no parent and the given predecessor: the
\* task becomes top-level, first in the list or right after its predecessor
StoreMove(seq, id, previous) ==
    LET t == [seq[IndexOf(seq, id)] EXCEPT !.parent = ""]
        rest == Without(seq, id)
    IN  IF previous = "" THEN <<t>> \o rest
        ELSE LET k == IndexOf(rest, previous)
             IN  SubSeq(rest, 1, k) \o <<t>> \o SubSeq(rest, k + 1, Len(rest))

\* the parent of the task in the list ("" for a top-level task and for a task
\* the list does not have)
ParentIn(seq, id) == IF id \in TaskIdsOf(seq) THEN seq[IndexOf(seq, id)].parent ELSE ""

\* Service.GetTaskListByTitle: the catalog entry whose title is exactly `title`
HasTitle(title) == \E e \in catalog : e.title = title

TopLevelOf(ts) == SelectSeq(ts, IsTopLevel)

---------------------------------------------------------------------------
(* Inputs of the re-ordering run *)

WfPriorities == {50}
WfPositions == {Pos1, PosShort}

RankRecords(ids, prios, positions) ==
    [TaskID : ids, Priority : prios, NewPosition : positions]

Failures == {[kind |-> k, items |-> <<>>] : k \in {"callfail", "empty", "badjson"}}

\* what the inference service may answer to a ranking request for n tasks of a
\* list: a failure, or an array of at most n+1 records naming any task of the
\* list (a subtask included) or a task the list does not have
RankOutcomes(listTasks, n) ==
    Failures \cup
    {[kind |-> "array", items |-> s] :
        s \in SeqsOf(RankRecords(TaskIdsOf(listTasks) \cup {UnknownId}, WfPriorities, WfPositions),
                     0..Min(n + 1, MaxTasks))}

\* n top-level tasks; the first, A, has a due date
Tops(n) == [i \in 1..n |-> [id |-> AllIds[i], parent |-> "",
                              due |-> IF i = 1 THEN SomeDue ELSE NoDue]]

WithSub(seq) == seq \o <<[id |-> SubId, parent |-> "A", due |-> NoDue]>>

\* the list "Backlog" is empty or holds the one task A; the list "In Progress"
\* holds up to MaxTasks top-level tasks and possibly a subtask of A
BacklogContents == {<<>>, Tops(1)}
InProgressContents == {Tops(n) : n \in 0..MaxTasks} \cup {WithSub(Tops(n)) : n \in 1..MaxTasks}

Catalogs == SUBSET {[title |-> targetLists[i], id |-> ListIdOf(targetLists[i])] : i \in 1..Len(targetLists)}

---------------------------------------------------------------------------
(* main and Prioritizer.ReorderTasksByPriority *)

Init ==
    /\ catalog \in Catalogs
    /\ \E a \in BacklogContents, b \in InProgressContents :
          store = [l \in ListIds |->
                      IF l = "L1" THEN (IF HasTitle("Backlog") THEN a ELSE <<>>)
                      ELSE (IF HasTitle("In Progress") THEN b ELSE <<>>)]
    /\ pc = "lookup"
    /\ exit = "running"
    /\ li = 1
    /\ taskList = ""
    /\ topLevelTasks = <<>>
    /\ resp = NoResp
    /\ result = NoResult
    /\ priorities = <<>>
    /\ mi = 1
    /\ previousTaskID = ""
    /\ err = NoErr
    /\ moves = <<>>
    /\ fetched = {}
    /\ ranked = {}
    /\ completed = {}
    /\ SubLocalsIdle
    /\ PauseLocalsIdle
    /\ AuthLocalsIdle

\* where the loop over targetLists goes after the iteration i
AfterIteration(i) == IF i < Len(targetLists) THEN "lookup" ELSE "returned"

\* taskList, err := p.service.GetTaskListByTitle(listTitle), at the head of an
\* iteration (whose variables are fresh)
GetTaskListByTitle ==
    /\ pc = "lookup"
    /\ topLevelTasks' = <<>>
    /\ priorities' = <<>>
    /\ moves' = <<>>
    /\ mi' = 1
    /\ previousTaskID' = ""
    /\ \E remoteOk \in BOOLEAN :
          IF remoteOk /\ HasTitle(targetLists[li])
          THEN /\ taskList' = ListIdOf(targetLists[li])
               /\ pc' = "fetch"
               /\ err' = err
          ELSE /\ taskList' = ""
               /\ err' = [kind |-> "find", task |-> "", list |-> targetLists[li]]
               /\ pc' = "returned"
    /\ UNCHANGED <<catalog, store, exit, li, resp, result, fetched, ranked, completed>>
    /\ UNCHANGED subLocals
    /\ UNCHANGED pauseLocals
    /\ UNCHANGED authLocals

\* (variant that skips no list)
NothingToRank_Never(ts) == FALSE

\* if len(topLevelTasks) == 0: the list is skipped
NothingToRank(ts) == Len(ts) = 0

\* tasks, err := p.service.ListTasks(taskList.Id), the filter to the top-level
\* tasks and the skip of a list that has none
ListTasks ==
    /\ pc = "fetch"
    /\ fetched' = fetched \cup {li}
    /\ \E remoteOk \in BOOLEAN :
          IF ~remoteOk
          THEN /\ err' = [kind |-> "fetch", task |-> "", list |-> targetLists[li]]
               /\ pc' = "returned"
               /\ UNCHANGED <<topLevelTasks, li, completed>>
          ELSE /\ topLevelTasks' = TopLevelOf(store[taskList])
               /\ err' = err
               /\ IF NothingToRank(topLevelTasks')
                  THEN /\ completed' = completed \cup {li}
                       /\ li' = li + 1
                       /\ pc' = AfterIteration(li)
                  ELSE /\ pc' = "analyze"
                       /\ UNCHANGED <<li, completed>>
    /\ UNCHANGED <<catalog, store, exit, taskList, resp, result, priorities, mi,
                   previousTaskID, moves, ranked>>
    /\ UNCHANGED subLocals
    /\ UNCHANGED pauseLocals
    /\ UNCHANGED authLocals

\* priorities, err := p.gemini.AnalyzeAndPrioritizeTasks(ctx, topLevelTasks)
\* and the sort.Slice of the result
Analyze ==
    /\ pc = "analyze"
    /\ ranked' = ranked \cup {li}
    /\ \E r \in RankOutcomes(store[taskList], Len(topLevelTasks)) :
          LET res == AnalyzeAndPrioritizeTasks(topLevelTasks, r)
          IN  IF ~res.ok
              THEN /\ err' = [kind |-> "analyze", task |-> "", list |-> targetLists[li]]
                   /\ pc' = "returned"
                   /\ UNCHANGED priorities
              ELSE /\ priorities' \in SortedByPosition(res.recs)
                   /\ pc' = "move"
                   /\ err' = err
    /\ mi' = 1
    /\ previousTaskID' = ""
    /\ UNCHANGED <<catalog, store, exit, li, taskList, topLevelTasks, resp, result,
                   moves, fetched, completed>>
    /\ UNCHANGED subLocals
    /\ UNCHANGED pauseLocals
    /\ UNCHANGED authLocals

\* the error of a failed move: fmt.Errorf("error moving task %s: %v", priority.TaskID, err)
MoveError(taskID, listTitle) == [kind |-> "move", task |-> taskID, list |-> ""]

\* one pass of the loop over priorities: p.service.MoveTask(taskList.Id,
\* priority.TaskID, previousTaskID)
MoveTask ==
    /\ pc = "move"
    /\ LET id == priorities[mi].TaskID IN
       \E remoteOk \in BOOLEAN :
          LET ok == remoteOk /\ CanMove(store[taskList], id, previousTaskID) IN
          /\ moves' = Append(moves, [list |-> taskList, task |-> id,
                                     previous |-> previousTaskID,
                                     parent |-> ParentIn(store[taskList], id), ok |-> ok])
          /\ IF ok
             THEN /\ store' = [store EXCEPT ![taskList] = StoreMove(@, id, previousTaskID)]
                  /\ previousTaskID' = id
                  /\ mi' = mi + 1
                  /\ err' = err
                  /\ IF mi = Len(priorities)
                     THEN /\ completed' = completed \cup {li}
                          /\ li' = li + 1
                          /\ pc' = AfterIteration(li)
                     ELSE UNCHANGED <<completed, li, pc>>
             ELSE /\ err' = MoveError(id, targetLists[li])
                  /\ pc' = "returned"
                  /\ UNCHANGED <<store, previousTaskID, mi, completed, li>>
    /\ UNCHANGED <<catalog, exit, taskList, topLevelTasks, resp, result, priorities,
                   fetched, ranked>>
    /\ UNCHANGED subLocals
    /\ UNCHANGED pauseLocals
    /\ UNCHANGED authLocals

\* main, after ReorderTasksByPriority returned: log.Fatal(err) on an error
ReorderReturned ==
    /\ pc = "returned"
    /\ IF err # NoErr
       THEN exit' = "fatal" /\ pc' = "exited"
       ELSE exit' = exit /\ pc' = "prioritized"
    /\ UNCHANGED <<catalog, store, li, taskList, topLevelTasks, resp, result, priorities,
                   mi, previousTaskID, err, moves, fetched, ranked, completed>>
    /\ UNCHANGED subLocals
    /\ UNCHANGED pauseLocals
    /\ UNCHANGED authLocals

Next ==
    \/ GetTaskListByTitle
    \/ ListTasks
    \/ Analyze
    \/ MoveTask
    \/ ReorderReturned

Spec == Init /\ [][Next]_vars

---------------------------------------------------------------------------
(* AnalyzeAndPrioritizeTasks on its own: one call on a batch of 1..MaxBatch   *)
(* tasks and any inference outcome of at most MaxBatch records.              *)

VPriorities == {-5, 0, 100, 101}
VPositions == {Pos1, PosShort, PosLong, PosLetters}

ValidateOutcomes ==
    Failures \cup
    {[kind |-> "array", items |-> s] :
        s \in SeqsOf(RankRecords({"A", UnknownId}, VPriorities, VPositions), 0..MaxBatch)}

InitValidate ==
    /\ catalog = {}
    /\ store = [l \in ListIds |-> <<>>]
    /\ pc = "validate"
    /\ exit = "running"
    /\ li = 1
    /\ taskList = ""
    /\ topLevelTasks \in {Tops(n) : n \in 1..MaxBatch}
    /\ resp \in ValidateOutcomes
    /\ result = NoResult
    /\ priorities = <<>>
    /\ mi = 1
    /\ previousTaskID = ""
    /\ err = NoErr
    /\ moves = <<>>
    /\ fetched = {}
    /\ ranked = {}
    /\ completed = {}
    /\ SubLocalsIdle
    /\ PauseLocalsIdle
    /\ AuthLocalsIdle

\* the call AnalyzeAndPrioritizeTasks(ctx, topLevelTasks) receiving resp
ValidateCall ==
    /\ pc = "validate"
    /\ result' = AnalyzeAndPrioritizeTasks(topLevelTasks, resp)
    /\ pc' = "validated"
    /\ UNCHANGED <<catalog, store, exit, li, taskList, topLevelTasks, resp, priorities,
                   mi, previousTaskID, err, moves, fetched, ranked, completed>>
    /\ UNCHANGED subLocals
    /\ UNCHANGED pauseLocals
    /\ UNCHANGED authLocals

NextValidate == ValidateCall

SpecValidate == InitValidate /\ [][NextValidate]_vars

---------------------------------------------------------------------------
(* GeminiClient.SuggestSubtasks, CreateSubtasks, AnalyzeAndCreateSubtasks    *)
(* and the subtask loop of main                                             *)

\* (variant whose count check is against the whole batch)
SuggestSubtasks_CountAll(ts, r) ==
    IF r.kind # "array"
        THEN [ok |-> FALSE, recs |-> <<>>, called |-> TRUE]
    ELSE IF Len(r.items) # Len(ts)
        THEN [ok |-> FALSE, recs |-> <<>>, called |-> TRUE]
    ELSE [ok |-> TRUE, recs |-> r.items, called |-> TRUE]

\* What SuggestSubtasks returns for the batch ts when the inference service
\* answers r (kinds as for AnalyzeAndPrioritizeTasks): the decoded suggestions
\* when there are as many as the batch has tasks with an empty parent.
SuggestSubtasks(ts, r) ==
    IF r.kind # "array"
        THEN [ok |-> FALSE, recs |-> <<>>, called |-> TRUE]
    ELSE IF Len(r.items) # Len(TopLevelOf(ts))
        THEN [ok |-> FALSE, recs |-> <<>>, called |-> TRUE]
    ELSE [ok |-> TRUE, recs |-> r.items, called |-> TRUE]

\* fmt.Sprintf("Auto-generated subtask\nRationale: %s", rationale): the fixed
\* prefix followed by the rationale
NotesFor(rationale) == <<"Auto-generated subtask\nRationale: ", rationale>>

\* (variant that does not inherit the parent's due date)
NewSubtask_NoDue(title, suggestion, parent) ==
    [Title |-> title,
     Parent |-> suggestion.ParentTaskID,
     Notes |-> NotesFor(suggestion.Rationale),
     Due |-> ""]

\* the subtask CreateSubtasks builds for one title of a suggestion whose parent
\* task is parent: the body's Parent, the notes, and the parent's due date when
\* it has one (the Due field stays empty otherwise)
NewSubtask(title, suggestion, parent) ==
    [Title |-> title,
     Parent |-> suggestion.ParentTaskID,
     Notes |-> NotesFor(suggestion.Rationale),
     Due |-> IF parent.due # "" THEN parent.due ELSE ""]

\* insertCall.Parent(suggestion.ParentTaskID): the parent parameter of the call
InsertParentParam(suggestion) == suggestion.ParentTaskID

\* the list after Tasks.Insert of the subtask with the parent parameter: a new
\* task, with an identifier of its own, under that parent
StoreInsert(seq, subtask, parentParam) ==
    Append(seq, [id |-> "N" \o ToString(Len(seq) + 1), parent |-> parentParam,
                 due |-> subtask.Due])

\* the store has the task Tasks.Get asks for
CanGet(seq, id) == id \in TaskIdsOf(seq)

\* the store accepts an insert under a task of the list
CanInsert(seq, parentParam) == parentParam \in TaskIdsOf(seq)

SubtaskLists == {<<>>, <<"Research">>, <<"Research", "Design">>}

SuggestionRecords(ids) ==
    [ParentTaskID : ids, Subtasks : SubtaskLists, Rationale : {"phases"}]

\* what the inference service may answer to a decomposition request for a batch
\* with n top-level tasks: a failure, or an array of at most n+1 suggestions for
\* any task of the list or a task the list does not have
SuggestOutcomes(listTasks, n) ==
    Failures \cup
    {[kind |-> "array", items |-> s] :
        s \in SeqsOf(SuggestionRecords(TaskIdsOf(listTasks) \cup {UnknownId}),
                     0..Min(n + 1, MaxParents))}

SubInProgressContents ==
    {Tops(n) : n \in 0..MaxParents} \cup {WithSub(Tops(n)) : n \in 1..MaxParents}

\* the subtask loop starts after the re-ordering run returned without error
InitSub ==
    /\ catalog \in Catalogs
    /\ \E a \in BacklogContents, b \in SubInProgressContents :
          store = [l \in ListIds |->
                      IF l = "L1" THEN (IF HasTitle("Backlog") THEN a ELSE <<>>)
                      ELSE (IF HasTitle("In Progress") THEN b ELSE <<>>)]
    /\ pc = "sublookup"
    /\ exit = "running"
    /\ li = 1
    /\ taskList = ""
    /\ topLevelTasks = <<>>
    /\ resp = NoResp
    /\ result = NoResult
    /\ priorities = <<>>
    /\ mi = 1
    /\ previousTaskID = ""
    /\ err = NoErr
    /\ moves = <<>>
    /\ fetched = {}
    /\ ranked = {}
    /\ completed = {}
    /\ SubLocalsIdle
    /\ PauseLocalsIdle
    /\ AuthLocalsIdle

\* where the subtask loop goes after the iteration i
AfterSubIteration(i) == IF i < Len(targetLists) THEN "sublookup" ELSE "subfinished"

\* (variant in which the first logged error ends the loop)
LogAndContinue_Break(e) ==
    /\ err' = e
    /\ failed' = failed \cup {li}
    /\ li' = li + 1
    /\ pc' = "subfinished"

\* the iteration ends with a logged error and the loop continues
LogAndContinue(e) ==
    /\ err' = e
    /\ failed' = failed \cup {li}
    /\ li' = li + 1
    /\ pc' = AfterSubIteration(li)

\* the iteration ends with "Successfully created subtasks for list"
ReportCreated ==
    /\ created' = created \cup {li}
    /\ li' = li + 1
    /\ pc' = AfterSubIteration(li)

\* taskList, err := service.GetTaskListByTitle(listTitle) at the head of an
\* iteration of the subtask loop
SubGetTaskListByTitle ==
    /\ pc = "sublookup"
    /\ visited' = visited \cup {li}
    /\ tasks' = <<>>
    /\ suggestions' = <<>>
    /\ si' = 1
    /\ ti' = 1
    /\ parentTask' = NoTask
    /\ subcalls' = <<>>
    /\ resp' = NoResp
    /\ result' = NoResult
    /\ \E remoteOk \in BOOLEAN :
          IF remoteOk /\ HasTitle(targetLists[li])
          THEN /\ taskList' = ListIdOf(targetLists[li])
               /\ pc' = "subfetch"
               /\ err' = NoErr
               /\ UNCHANGED <<li, failed>>
          ELSE /\ taskList' = ""
               /\ LogAndContinue([kind |-> "find", task |-> "", list |-> targetLists[li]])
    /\ UNCHANGED <<catalog, store, exit, created>>
    /\ UNCHANGED reorderLocals
    /\ UNCHANGED pauseLocals
    /\ UNCHANGED authLocals

\* tasks, err := service.ListTasks(taskList.Id) and the skip of an empty list
SubListTasks ==
    /\ pc = "subfetch"
    /\ \E remoteOk \in BOOLEAN :
          IF ~remoteOk
          THEN /\ LogAndContinue([kind |-> "fetch", task |-> "", list |-> targetLists[li]])
               /\ UNCHANGED tasks
          ELSE /\ tasks' = store[taskList]
               /\ IF Len(tasks') = 0
                  THEN /\ li' = li + 1
                       /\ pc' = AfterSubIteration(li)
                  ELSE /\ pc' = "suggest"
                       /\ li' = li
               /\ UNCHANGED <<err, failed>>
    /\ UNCHANGED <<catalog, store, exit, taskList, resp, result, suggestions, si, ti,
                   parentTask, subcalls, created, visited>>
    /\ UNCHANGED reorderLocals
    /\ UNCHANGED pauseLocals
    /\ UNCHANGED authLocals

\* AnalyzeAndCreateSubtasks up to the return of SuggestSubtasks; with no
\* suggestion CreateSubtasks returns nil at once
Suggest ==
    /\ pc = "suggest"
    /\ \E r \in SuggestOutcomes(store[taskList], Len(TopLevelOf(tasks))) :
          /\ resp' = r
          /\ result' = SuggestSubtasks(tasks, r)
          /\ IF ~result'.ok
             THEN /\ LogAndContinue([kind |-> "suggest", task |-> "", list |-> targetLists[li]])
                  /\ UNCHANGED <<suggestions, created>>
             ELSE /\ suggestions' = result'.recs
                  /\ IF Len(suggestions') = 0
                     THEN ReportCreated
                     ELSE /\ pc' = "getparent"
                          /\ UNCHANGED <<li, created>>
                  /\ UNCHANGED <<err, failed>>
    /\ si' = 1
    /\ ti' = 1
    /\ UNCHANGED <<catalog, store, exit, taskList, tasks, parentTask, subcalls, visited>>
    /\ UNCHANGED reorderLocals
    /\ UNCHANGED pauseLocals
    /\ UNCHANGED authLocals

\* (variant that reports success after the first suggestion)
AfterSuggestion_Done ==
    /\ si' = si + 1
    /\ ti' = 1
    /\ ReportCreated

\* what follows the last insert of the suggestion si (or its empty title list)
AfterSuggestion ==
    /\ si' = si + 1
    /\ ti' = 1
    /\ IF si = Len(suggestions)
       THEN ReportCreated
       ELSE /\ pc' = "getparent"
            /\ UNCHANGED <<li, created>>

\* (variant that goes on with the next title after a failed insert)
InsertFailed_NextTitle(e, sg) ==
    /\ IF ti = Len(sg.Subtasks)
       THEN AfterSuggestion
       ELSE /\ ti' = ti + 1
            /\ UNCHANGED <<si, pc, li, created>>
    /\ UNCHANGED <<err, failed>>

\* a failed insert: CreateSubtasks returns "failed to create subtask ...",
\* AnalyzeAndCreateSubtasks wraps and returns it, main logs it and continues
\* with the next list
InsertFailed(e, sg) ==
    /\ LogAndContinue(e)
    /\ UNCHANGED <<si, ti, created>>

\* CreateSubtasks, head of the loop over the suggestions:
\* g.tasks.Tasks.Get(taskListId, suggestion.ParentTaskID)
GetParent ==
    /\ pc = "getparent"
    /\ LET id == suggestions[si].ParentTaskID IN
       \E remoteOk \in BOOLEAN :
          LET ok == remoteOk /\ CanGet(store[taskList], id) IN
          /\ subcalls' = Append(subcalls, [op |-> "get", sugg |-> si, ok |-> ok,
                                           list |-> taskList, param |-> id])
          /\ IF ~ok
             THEN /\ LogAndContinue([kind |-> "create", task |-> id, list |-> targetLists[li]])
                  /\ UNCHANGED <<parentTask, si, ti, created>>
             ELSE /\ parentTask' = store[taskList][IndexOf(store[taskList], id)]
                  /\ IF Len(suggestions[si].Subtasks) = 0
                     THEN AfterSuggestion
                     ELSE /\ pc' = "insert"
                          /\ UNCHANGED <<si, ti, li, created>>
                  /\ UNCHANGED <<err, failed>>
    /\ UNCHANGED <<catalog, store, exit, taskList, resp, result, tasks, suggestions, visited>>
    /\ UNCHANGED reorderLocals
    /\ UNCHANGED pauseLocals
    /\ UNCHANGED authLocals

\* CreateSubtasks, one pass of the loop over the titles of a suggestion: build
\* the subtask and insert it with the parent parameter
InsertSubtask ==
    /\ pc = "insert"
    /\ LET sg == suggestions[si]
           subtask == NewSubtask(sg.Subtasks[ti], sg, parentTask)
           param == InsertParentParam(sg)
       IN
       \E remoteOk \in BOOLEAN :
          LET ok == remoteOk /\ CanInsert(store[taskList], param) IN
          /\ subcalls' = Append(subcalls, [op |-> "insert", sugg |-> si, ok |-> ok,
                                           list |-> taskList, param |-> param,
                                           body |-> subtask])
          /\ IF ~ok
             THEN /\ InsertFailed([kind |-> "create", task |-> param, list |-> targetLists[li]], sg)
                  /\ UNCHANGED store
             ELSE /\ store' = [store EXCEPT ![taskList] = StoreInsert(@, subtask, param)]
                  /\ IF ti = Len(sg.Subtasks)
                     THEN AfterSuggestion
                     ELSE /\ ti' = ti + 1
                          /\ UNCHANGED <<si, pc, li, created>>
                  /\ UNCHANGED <<err, failed>>
    /\ UNCHANGED <<catalog, exit, taskList, resp, result, tasks, suggestions, parentTask,
                   visited>>
    /\ UNCHANGED reorderLocals
    /\ UNCHANGED pauseLocals
    /\ UNCHANGED authLocals

NextSub ==
    \/ SubGetTaskListByTitle
    \/ SubListTasks
    \/ Suggest
    \/ GetParent
    \/ InsertSubtask

SpecSub == InitSub /\ [][NextSub]_vars

---------------------------------------------------------------------------
(* main as a whole: the setup, the re-ordering run, the subtask loop and the  *)
(* final listing of the task lists                                           *)

\* the steps of the setup that end the process with log.Fatal when they fail:
\* the -u option is empty, auth.NewConfig, CreateClientAsUser, tasks.NewService
\* (nil handle), GEMINI_API_KEY is empty, gemini.NewGeminiClient
SetupSteps == <<"user option", "credentials", "client", "nil service", "api key",
                "gemini client">>

SetupError(step) == [kind |-> "setup", task |-> "", list |-> "", step |-> step]

InitMain ==
    /\ catalog \in Catalogs
    /\ \E a \in BacklogContents, b \in SubInProgressContents :
          store = [l \in ListIds |->
                      IF l = "L1" THEN (IF HasTitle("Backlog") THEN a ELSE <<>>)
                      ELSE (IF HasTitle("In Progress") THEN b ELSE <<>>)]
    /\ pc = "setup"
    /\ exit = "running"
    /\ li = 1
    /\ taskList = ""
    /\ topLevelTasks = <<>>
    /\ resp = NoResp
    /\ result = NoResult
    /\ priorities = <<>>
    /\ mi = 1
    /\ previousTaskID = ""
    /\ err = NoErr
    /\ moves = <<>>
    /\ fetched = {}
    /\ ranked = {}
    /\ completed = {}
    /\ SubLocalsIdle
    /\ PauseLocalsIdle
    /\ AuthLocalsIdle

\* main up to the call of ReorderTasksByPriority: the first step that fails
\* ends the process with log.Fatal
Setup ==
    /\ pc = "setup"
    /\ \/ /\ pc' = "lookup"
          /\ UNCHANGED <<exit, err>>
       \/ \E k \in 1..Len(SetupSteps) :
             /\ err' = SetupError(SetupSteps[k])
             /\ exit' = "fatal"
             /\ pc' = "exited"
    /\ UNCHANGED <<catalog, store, li, taskList, resp, result>>
    /\ UNCHANGED reorderLocals
    /\ UNCHANGED subLocals
    /\ UNCHANGED pauseLocals
    /\ UNCHANGED authLocals

\* main between "Task prioritization completed successfully!" and the first
\* iteration of the subtask loop
StartSubtaskLoop ==
    /\ pc = "prioritized"
    /\ pc' = "sublookup"
    /\ li' = 1
    /\ taskList' = ""
    /\ UNCHANGED <<catalog, store, exit, resp, result, err>>
    /\ UNCHANGED <<topLevelTasks, priorities, mi, previousTaskID, moves, fetched, ranked,
                   completed>>
    /\ UNCHANGED subLocals
    /\ UNCHANGED pauseLocals
    /\ UNCHANGED authLocals

\* main after the subtask loop: service.ListTaskLists(), log.Fatal when it
\* fails, return otherwise
DisplayTaskLists ==
    /\ pc = "subfinished"
    /\ pc' = "exited"
    /\ \E remoteOk \in BOOLEAN :
          IF remoteOk
          THEN exit' = "ok" /\ err' = err
          ELSE exit' = "fatal" /\ err' = [kind |-> "listlists", task |-> "", list |-> ""]
    /\ UNCHANGED <<catalog, store, li, taskList, resp, result>>
    /\ UNCHANGED reorderLocals
    /\ UNCHANGED subLocals
    /\ UNCHANGED pauseLocals
    /\ UNCHANGED authLocals

NextMain ==
    \/ Setup
    \/ Next
    \/ StartSubtaskLoop
    \/ NextSub
    \/ DisplayTaskLists

SpecMain == InitMain /\ [][NextMain]_vars

---------------------------------------------------------------------------
(* Prioritizer.ReorderTasksByPriority, pause variant: the tasks of all        *)
(* matching lists are ranked in one batch and each list is then re-ordered    *)
(* by descending priority, with a pause after each move.                      *)

\* strings.ToLower on the titles the model has
ToLower(title) ==
    IF title = "Backlog" THEN "backlog"
    ELSE IF title = "In Progress" THEN "in progress"
    ELSE title

shouldProcessList(listTitle, targets) ==
    \E i \in 1..Len(targets) : ToLower(targets[i]) = ToLower(listTitle)

TitleOf(listID) == (CHOOSE e \in catalog : e.id = listID).title

\* getPriorityForTask: the priority of the first record that names the task,
\* 0 when no record does
getPriorityForTask(taskID, recs) ==
    IF \E i \in 1..Len(recs) : recs[i].TaskID = taskID
    THEN LET first == CHOOSE i \in 1..Len(recs) :
                          /\ recs[i].TaskID = taskID
                          /\ \A j \in 1..(i - 1) : recs[j].TaskID # taskID
         IN  recs[first].Priority
    ELSE 0

\* sort.Slice by priority, highest first: any arrangement that is descending
\* in the priority
SortedByPriority(seq) ==
    LET n == Len(seq)
        perms == {f \in [1..n -> 1..n] : \A i, j \in 1..n : i # j => f[i] # f[j]}
    IN  {[i \in 1..n |-> seq[f[i]]] : f \in
            {g \in perms : \A i \in 1..(n - 1) : seq[g[i]].priority >= seq[g[i + 1]].priority}}

\* the tasks of a list as ListTasks returns them, each marked with the list
Fetched(listID) ==
    [i \in 1..Len(store[listID]) |->
        [id |-> store[listID][i].id, parent |-> store[listID][i].parent,
         due |-> store[listID][i].due, from |-> listID]]

\* taskToListMap[task.Id] = list.Id for every task of the list
MapTasksTo(m, ts, listID) ==
    [id \in DOMAIN m \cup TaskIdsOf(ts) |-> IF id \in TaskIdsOf(ts) THEN listID ELSE m[id]]

\* the grouping loop: every task of allTasks goes, with its priority, to the
\* list taskToListMap has for its id
GroupByList(all, m, recs) ==
    [l \in {m[all[i].id] : i \in 1..Len(all)} |->
        LET mine == SelectSeq(all, LAMBDA t : m[t.id] = l)
        IN  [i \in 1..Len(mine) |->
                [task |-> mine[i], priority |-> getPriorityForTask(mine[i].id, recs)]]]

PausePriorities == {10, 90}

\* what the inference service may answer to the ranking request for the batch:
\* a failure, or an array of as many records as the batch has tasks, or one
\* less, naming tasks of the batch or a task no list has
PauseOutcomes(ts) ==
    Failures \cup
    {[kind |-> "array", items |-> s] :
        s \in SeqsOf(RankRecords(TaskIdsOf(ts) \cup {UnknownId}, PausePriorities, {Pos1}),
                     {n \in {Len(ts) - 1, Len(ts)} : n >= 0})}

InitPause ==
    /\ catalog \in Catalogs
    /\ \E a \in BacklogContents, b \in {Tops(n) : n \in 0..MaxBatch} :
          store = [l \in ListIds |->
                      IF l = "L1" THEN (IF HasTitle("Backlog") THEN a ELSE <<>>)
                      ELSE (IF HasTitle("In Progress") THEN b ELSE <<>>)]
    /\ pc = "plists"
    /\ exit = "running"
    /\ li = 1
    /\ taskList = ""
    /\ topLevelTasks = <<>>
    /\ resp = NoResp
    /\ result = NoResult
    /\ priorities = <<>>
    /\ mi = 1
    /\ previousTaskID = ""
    /\ err = NoErr
    /\ moves = <<>>
    /\ fetched = {}
    /\ ranked = {}
    /\ completed = {}
    /\ SubLocalsIdle
    /\ PauseLocalsIdle
    /\ AuthLocalsIdle

\* after the last list was fetched: the error for an empty batch, or on to the
\* ranking
AfterFetches(all) ==
    IF Len(all) = 0
    THEN /\ err' = [kind |-> "notasks", task |-> "", list |-> ""]
         /\ pc' = "returned"
    ELSE /\ err' = err
         /\ pc' = "panalyze"

\* taskLists, err := p.service.ListTaskLists() and the choice of the lists
\* whose title is a target title
PauseListTaskLists ==
    /\ pc = "plists"
    /\ \E remoteOk \in BOOLEAN :
          IF ~remoteOk
          THEN /\ err' = [kind |-> "listlists", task |-> "", list |-> ""]
               /\ pc' = "returned"
               /\ todo' = todo
          ELSE /\ todo' = {e.id : e \in {c \in catalog : shouldProcessList(c.title, targetLists)}}
               /\ IF todo' = {}
                  THEN AfterFetches(<<>>)
                  ELSE pc' = "pfetch" /\ err' = err
    /\ UNCHANGED <<catalog, store, exit, li, taskList, resp, result>>
    /\ UNCHANGED reorderLocals
    /\ UNCHANGED subLocals
    /\ UNCHANGED <<allTasks, taskToListMap, tasksByList>>
    /\ UNCHANGED authLocals

\* tasks, err := p.service.ListTasks(list.Id) for a matching list, and the
\* filling of allTasks and taskToListMap
PauseListTasks ==
    /\ pc = "pfetch"
    /\ \E l \in todo, remoteOk \in BOOLEAN :
          IF ~remoteOk
          THEN /\ err' = [kind |-> "fetch", task |-> "", list |-> TitleOf(l)]
               /\ pc' = "returned"
               /\ UNCHANGED <<allTasks, taskToListMap, todo>>
          ELSE /\ allTasks' = allTasks \o Fetched(l)
               /\ taskToListMap' = MapTasksTo(taskToListMap, Fetched(l), l)
               /\ todo' = todo \ {l}
               /\ IF todo' = {}
                  THEN AfterFetches(allTasks')
                  ELSE pc' = pc /\ err' = err
    /\ UNCHANGED <<catalog, store, exit, li, taskList, resp, result, tasksByList>>
    /\ UNCHANGED reorderLocals
    /\ UNCHANGED subLocals
    /\ UNCHANGED authLocals

\* priorities, err := p.gemini.AnalyzeAndPrioritizeTasks(ctx, allTasks) and the
\* grouping of the tasks by list
PauseAnalyze ==
    /\ pc = "panalyze"
    /\ \E r \in PauseOutcomes(allTasks) :
          /\ resp' = r
          /\ result' = AnalyzeAndPrioritizeTasks(allTasks, r)
          /\ IF ~result'.ok
             THEN /\ err' = [kind |-> "analyze", task |-> "", list |-> ""]
                  /\ pc' = "returned"
                  /\ UNCHANGED <<tasksByList, todo>>
             ELSE /\ tasksByList' = GroupByList(allTasks, taskToListMap, result'.recs)
                  /\ todo' = DOMAIN tasksByList'
                  /\ pc' = "pupdate"
                  /\ err' = err
    /\ UNCHANGED <<catalog, store, exit, li, taskList, allTasks, taskToListMap>>
    /\ UNCHANGED reorderLocals
    /\ UNCHANGED subLocals
    /\ UNCHANGED authLocals

\* p.service.MoveTask(listID, task i of the sorted group, its predecessor in
\* the group or "" for the first); rest are the lists still to update
PauseMoveCall(listID, sorted, i, rest) ==
    LET cur == sorted[i].task
        prev == IF i = 1 THEN "" ELSE sorted[i - 1].task.id
        prevFrom == IF i = 1 THEN "" ELSE sorted[i - 1].task.from
    IN
    \E remoteOk \in BOOLEAN :
        LET ok == remoteOk /\ CanMove(store[listID], cur.id, prev) IN
        /\ moves' = Append(moves, [list |-> listID, task |-> cur.id, from |-> cur.from,
                                   previous |-> prev, previousFrom |-> prevFrom, ok |-> ok])
        /\ IF ok
           THEN /\ store' = [store EXCEPT ![listID] = StoreMove(@, cur.id, prev)]
                /\ mi' = i + 1
                /\ err' = err
                /\ pc' = IF i < Len(sorted) THEN "pmove"
                         ELSE IF rest = {} THEN "returned" ELSE "pupdate"
           ELSE /\ err' = [kind |-> "move", task |-> cur.id, list |-> TitleOf(listID)]
                /\ pc' = "returned"
                /\ UNCHANGED <<store, mi>>

\* head of a pass of the loop over tasksByList (a map: any list not yet taken
\* may come next): the sort by priority and the move of the first task to the
\* top
PauseMoveToTop ==
    /\ pc = "pupdate"
    /\ \E l \in todo :
          \E sorted \in SortedByPriority(tasksByList[l]) :
              /\ tasksByList' = [tasksByList EXCEPT ![l] = sorted]
              /\ taskList' = l
              /\ todo' = todo \ {l}
              /\ PauseMoveCall(l, sorted, 1, todo')
    /\ UNCHANGED <<catalog, exit, li, resp, result, allTasks, taskToListMap>>
    /\ UNCHANGED <<topLevelTasks, priorities, previousTaskID, fetched, ranked, completed>>
    /\ UNCHANGED subLocals
    /\ UNCHANGED authLocals

\* the loop over the remaining tasks of the list: move task mi after task
\* mi - 1, then time.Sleep
PauseMoveNext ==
    /\ pc = "pmove"
    /\ PauseMoveCall(taskList, tasksByList[taskList], mi, todo)
    /\ UNCHANGED <<catalog, exit, li, taskList, resp, result>>
    /\ UNCHANGED <<topLevelTasks, priorities, previousTaskID, fetched, ranked, completed>>
    /\ UNCHANGED subLocals
    /\ UNCHANGED pauseLocals
    /\ UNCHANGED authLocals

NextPause ==
    \/ PauseListTaskLists
    \/ PauseListTasks
    \/ PauseAnalyze
    \/ PauseMoveToTop
    \/ PauseMoveNext
    \/ ReorderReturned

SpecPause == InitPause /\ [][NextPause]_vars

---------------------------------------------------------------------------
(* Config.WaitForCallback: the select of the caller, the goroutine that runs  *)
(* ListenAndServe, one handler goroutine per callback request and the        *)
(* goroutines that run server.Shutdown.  A send on a channel of capacity 1   *)
(* is enabled only while the buffer is empty; nothing receives once          *)
(* WaitForCallback has returned.                                             *)

\* cap(codeChan) and cap(errChan)
ChanCap == 1

InitAuth ==
    /\ catalog = {}
    /\ store = [l \in ListIds |-> <<>>]
    /\ pc = "auth"
    /\ exit = "running"
    /\ li = 1
    /\ taskList = ""
    /\ topLevelTasks = <<>>
    /\ resp = NoResp
    /\ result = NoResult
    /\ priorities = <<>>
    /\ mi = 1
    /\ previousTaskID = ""
    /\ err = NoErr
    /\ moves = <<>>
    /\ fetched = {}
    /\ ranked = {}
    /\ completed = {}
    /\ SubLocalsIdle
    /\ PauseLocalsIdle
    /\ codeChan = <<>>
    /\ errChan = <<>>
    /\ wpc = "select"
    /\ outcomes = <<>>
    /\ server = "starting"
    /\ spc = "start"
    /\ hpc = [h \in Requests |-> "none"]
    /\ shutdowns = 0
    /\ cancelled = FALSE

\* server.ListenAndServe() in its goroutine: it listens, or it returns an
\* error that is not ErrServerClosed (the port is taken)
ServerListen ==
    /\ spc = "start"
    /\ server = "starting"
    /\ \/ server' = "listening" /\ spc' = "serving"
       \/ server' = "failed" /\ spc' = "sendErr"
    /\ UNCHANGED <<codeChan, errChan, wpc, outcomes, hpc, shutdowns, cancelled>>
    /\ UNCHANGED workflowVars

\* errChan <- err in the goroutine of the server
ServerSendErr ==
    /\ spc = "sendErr"
    /\ Len(errChan) < ChanCap
    /\ errChan' = Append(errChan, "listen")
    /\ spc' = "done"
    /\ UNCHANGED <<codeChan, wpc, outcomes, server, hpc, shutdowns, cancelled>>
    /\ UNCHANGED workflowVars

\* ListenAndServe returns ErrServerClosed after a shutdown: the goroutine ends
\* without a send
ServerClosed ==
    /\ server = "closed"
    /\ spc \in {"start", "serving"}
    /\ spc' = "done"
    /\ UNCHANGED <<codeChan, errChan, wpc, outcomes, server, hpc, shutdowns, cancelled>>
    /\ UNCHANGED workflowVars

\* a callback request reaches the listening server and its handler reads the
\* code parameter: empty or not
RequestArrives(h) ==
    /\ server = "listening"
    /\ hpc[h] = "none"
    /\ \E withCode \in BOOLEAN :
          hpc' = [hpc EXCEPT ![h] = IF withCode THEN "sendCode" ELSE "sendErr"]
    /\ UNCHANGED <<codeChan, errChan, wpc, outcomes, server, spc, shutdowns, cancelled>>
    /\ UNCHANGED workflowVars

\* the handler of a request without code: errChan <- ..., w.Write, return
HandlerSendErr(h) ==
    /\ hpc[h] = "sendErr"
    /\ Len(errChan) < ChanCap
    /\ errChan' = Append(errChan, "no code")
    /\ hpc' = [hpc EXCEPT ![h] = "done"]
    /\ UNCHANGED <<codeChan, wpc, outcomes, server, spc, shutdowns, cancelled>>
    /\ UNCHANGED workflowVars

\* the handler of a request with a code: codeChan <- code, w.Write,
\* go server.Shutdown(ctx), return
HandlerSendCode(h) ==
    /\ hpc[h] = "sendCode"
    /\ Len(codeChan) < ChanCap
    /\ codeChan' = Append(codeChan, h)
    /\ hpc' = [hpc EXCEPT ![h] = "done"]
    /\ shutdowns' = shutdowns + 1
    /\ UNCHANGED <<errChan, wpc, outcomes, server, spc, cancelled>>
    /\ UNCHANGED workflowVars

\* server.Shutdown(ctx) in its goroutine: the listener is closed (handlers
\* that are running keep running)
Shutdown ==
    /\ shutdowns > 0
    /\ shutdowns' = shutdowns - 1
    /\ server' = IF server \in {"starting", "listening"} THEN "closed" ELSE server
    /\ UNCHANGED <<codeChan, errChan, wpc, outcomes, spc, hpc, cancelled>>
    /\ UNCHANGED workflowVars

\* the context of the caller is cancelled
Cancel ==
    /\ wpc # "idle"
    /\ ~cancelled
    /\ cancelled' = TRUE
    /\ UNCHANGED <<codeChan, errChan, wpc, outcomes, server, spc, hpc, shutdowns>>
    /\ UNCHANGED workflowVars

\* select, case code := <-codeChan: return code, nil
SelectCode ==
    /\ wpc = "select"
    /\ codeChan # <<>>
    /\ outcomes' = Append(outcomes, [kind |-> "code", value |-> Head(codeChan)])
    /\ codeChan' = Tail(codeChan)
    /\ wpc' = "returned"
    /\ UNCHANGED <<errChan, server, spc, hpc, shutdowns, cancelled>>
    /\ UNCHANGED workflowVars

\* select, case err := <-errChan: return "", err
SelectErr ==
    /\ wpc = "select"
    /\ errChan # <<>>
    /\ outcomes' = Append(outcomes, [kind |-> "error", value |-> Head(errChan)])
    /\ errChan' = Tail(errChan)
    /\ wpc' = "returned"
    /\ UNCHANGED <<codeChan, server, spc, hpc, shutdowns, cancelled>>
    /\ UNCHANGED workflowVars

\* select, case <-ctx.Done(): return "", ctx.Err()
SelectDone ==
    /\ wpc = "select"
    /\ cancelled
    /\ outcomes' = Append(outcomes, [kind |-> "cancelled", value |-> "ctx"])
    /\ wpc' = "returned"
    /\ UNCHANGED <<codeChan, errChan, server, spc, hpc, shutdowns, cancelled>>
    /\ UNCHANGED workflowVars

NextAuth ==
    \/ ServerListen
    \/ ServerSendErr
    \/ ServerClosed
    \/ \E h \in Requests : RequestArrives(h)
    \/ \E h \in Requests : HandlerSendErr(h)
    \/ \E h \in Requests : HandlerSendCode(h)
    \/ Shutdown
    \/ Cancel
    \/ SelectCode
    \/ SelectErr
    \/ SelectDone

\* every goroutine that can take a step eventually takes it; the arrival of a
\* request and the cancellation of the context are up to the environment
FairAuth ==
    /\ WF_vars(ServerListen)
    /\ WF_vars(ServerSendErr)
    /\ WF_vars(ServerClosed)
    /\ \A h \in Requests : WF_vars(HandlerSendErr(h))
    /\ \A h \in Requests : WF_vars(HandlerSendCode(h))
    /\ WF_vars(Shutdown)
    /\ WF_vars(SelectCode \/ SelectErr \/ SelectDone)

SpecAuth == InitAuth /\ [][NextAuth]_vars /\ FairAuth

---------------------------------------------------------------------------
(* Claims *)

\* the ids of the tasks of the list that are among `ids`, in the store's order
OrderAmong(seq, ids) ==
    LET kept == SelectSeq(seq, LAMBDA t : t.id \in ids)
    IN  [i \in 1..Len(kept) |-> kept[i].id]

RangeOf(seq) == {seq[i] : i \in 1..Len(seq)}

\* every MoveTask call of the iteration succeeded and none is left to issue
ReplayDone == priorities # <<>> /\ mi = Len(priorities) + 1

\* C1 (as claimed): for a list whose ranking validated to N >= 1 records, the
\* k-th MoveTask call moves the k-th record in ascending position order, the
\* first with an empty predecessor and every later one with the task moved just
\* before as predecessor; when no move failed exactly N calls were issued and
\* the store's order of the ranked tasks equals the ranking order.
C1_ReplayRealisesRanking ==
    /\ \A k \in 1..Len(moves) :
          /\ k <= Len(priorities)
          /\ moves[k].task = priorities[k].TaskID
          /\ moves[k].previous = (IF k = 1 THEN "" ELSE priorities[k - 1].TaskID)
    /\ \A k \in 1..(Len(priorities) - 1) :
          ~StrLess(priorities[k + 1].NewPosition, priorities[k].NewPosition)
    /\ ReplayDone =>
          /\ Len(moves) = Len(priorities)
          /\ OrderAmong(store[taskList], RangeOf(Ids(priorities))) = Ids(priorities)

\* C2: a successful result of AnalyzeAndPrioritizeTasks on a batch of N >= 1
\* tasks has exactly N records, each with a priority in [0,100] and a position
\* string of exactly 5 characters.
C2_ValidatedShape ==
    (result.called /\ result.ok) =>
        /\ Len(result.recs) = Len(topLevelTasks)
        /\ \A i \in 1..Len(result.recs) :
              /\ result.recs[i].Priority >= 0
              /\ result.recs[i].Priority <= 100
              /\ Len(result.recs[i].NewPosition) = 5

\* a call succeeded on a response of two records, one with an out-of-range
\* priority and one with a position string that is not 5 characters long
C2_Witness ==
    /\ result.called /\ result.ok
    /\ Len(result.recs) = 2
    /\ \E i \in 1..2 : resp.items[i].Priority > 100
    /\ \E i \in 1..2 : Len(resp.items[i].NewPosition) # 5

\* C3 (as claimed): when a move fails, the returned error identifies the task
\* being moved and the list, the failed move is the last call issued for the
\* list, and no later move is issued.
C3_MoveFailureNamesTaskAndList ==
    /\ \A k \in 1..(Len(moves) - 1) : moves[k].ok
    /\ err.kind = "move" =>
          /\ ~moves[Len(moves)].ok
          /\ err.task = moves[Len(moves)].task
          /\ err.list \in {targetLists[li], taskList}

\* C4 (as claimed): a fetch, inference, response-shape or move error in one
\* list does not keep the lists after it from being processed: when the run has
\* ended, every later target list the catalog has was fetched.
C4_LaterListsStillRun ==
    (exit # "running" /\ err.kind \in {"fetch", "analyze", "move"}) =>
        \A j \in (li + 1)..Len(targetLists) :
            HasTitle(targetLists[j]) => j \in fetched

\* C5 (as claimed): a target title the catalog does not have is skipped: it
\* does not end the run as a failure, and every later target list the catalog
\* has was fetched when the run has ended.
C5_UnmatchedTitleSkipped ==
    \A i \in 1..Len(targetLists) :
        (exit # "running" /\ ~HasTitle(targetLists[i]) /\ err.kind = "find" /\ li = i) =>
            /\ exit # "fatal"
            /\ \A j \in (i + 1)..Len(targetLists) :
                  HasTitle(targetLists[j]) => j \in fetched

\* C6 (as claimed): every record of a result that AnalyzeAndPrioritizeTasks
\* returns without error names a task of the submitted batch.
C6_RecordsNameBatchTasks ==
    (result.called /\ result.ok) =>
        \A i \in 1..Len(result.recs) :
            result.recs[i].TaskID \in TaskIdsOf(topLevelTasks)

\* C7 (as claimed): only tasks with an empty parent are submitted for ranking,
\* and no MoveTask call has a subject that has a parent in the store.
C7_OnlyTopLevelMoved ==
    /\ \A i \in 1..Len(topLevelTasks) : topLevelTasks[i].parent = ""
    /\ \A k \in 1..Len(moves) : moves[k].parent = ""

\* the store calls of the current iteration that inserted for the suggestion s
InsertsOf(s) == SelectSeq(subcalls, LAMBDA c : c.op = "insert" /\ c.sugg = s)

OkInserts == SelectSeq(subcalls, LAMBDA c : c.op = "insert" /\ c.ok)

\* the due date of the task of the list ("" when it has none)
DueIn(seq, id) == seq[IndexOf(seq, id)].due

\* C8: SuggestSubtasks succeeds only with as many suggestions as the batch has
\* tasks with an empty parent; on a mismatch (as on any failure of the call) it
\* returns an error and AnalyzeAndCreateSubtasks issues no store call and
\* creates no subtask.
C8_SuggestionCountGate ==
    /\ (result.called /\ result.ok) => Len(result.recs) = Len(TopLevelOf(tasks))
    /\ (result.called /\ resp.kind = "array" /\ Len(resp.items) # Len(TopLevelOf(tasks)))
          => ~result.ok
    /\ (result.called /\ ~result.ok) =>
          /\ err.kind = "suggest"
          /\ subcalls = <<>>
          /\ store[taskList] = tasks

\* a response with one suggestion per task of the batch, subtasks included, was
\* rejected: the batch has fewer top-level tasks than tasks
C8_Witness ==
    /\ result.called /\ ~result.ok
    /\ resp.kind = "array"
    /\ Len(resp.items) = Len(tasks)
    /\ Len(TopLevelOf(tasks)) < Len(tasks)
    /\ subcalls = <<>>

\* C9 (as claimed): every suggestion that passes validation, and every subtask
\* inserted, has as parent a top-level task of the submitted batch.
C9_ParentsAreTopLevelOfBatch ==
    /\ (result.called /\ result.ok) =>
          \A i \in 1..Len(result.recs) :
              result.recs[i].ParentTaskID \in TaskIdsOf(TopLevelOf(tasks))
    /\ \A k \in 1..Len(subcalls) :
          (subcalls[k].op = "insert" /\ subcalls[k].ok) =>
              subcalls[k].param \in TaskIdsOf(TopLevelOf(tasks))

\* C10: for every suggestion CreateSubtasks has worked through (its parent was
\* fetched and all its inserts succeeded), exactly one task per title was
\* inserted, in the order of the titles, each with the suggestion's parent in
\* the body and as the parameter of the call, notes that contain the rationale,
\* and the parent's due date (none when the parent has none); the store holds
\* exactly the inserted tasks as new tasks, under that parent and with that due
\* date.
C10_SubtasksMaterialized ==
    /\ \A s \in 1..Len(suggestions) :
          s < si =>
              LET ins == InsertsOf(s)
                  sg == suggestions[s]
              IN  /\ Len(ins) = Len(sg.Subtasks)
                  /\ \A j \in 1..Len(ins) :
                        /\ ins[j].ok
                        /\ ins[j].list = taskList
                        /\ ins[j].body.Title = sg.Subtasks[j]
                        /\ ins[j].body.Parent = sg.ParentTaskID
                        /\ ins[j].param = sg.ParentTaskID
                        /\ \E n \in 1..Len(ins[j].body.Notes) :
                              ins[j].body.Notes[n] = sg.Rationale
                        /\ ins[j].body.Due = DueIn(store[taskList], sg.ParentTaskID)
    /\ tasks # <<>> =>
          /\ Len(store[taskList]) = Len(tasks) + Len(OkInserts)
          /\ \A k \in 1..Len(OkInserts) :
                /\ store[taskList][Len(tasks) + k].parent = OkInserts[k].param
                /\ store[taskList][Len(tasks) + k].due = OkInserts[k].body.Due

\* a suggestion with two titles under a parent that has a due date was worked
\* through, and its two subtasks are in the store
C10_Witness ==
    \E s \in 1..Len(suggestions) :
        /\ s < si
        /\ Len(suggestions[s].Subtasks) = 2
        /\ Len(InsertsOf(s)) = 2
        /\ DueIn(store[taskList], suggestions[s].ParentTaskID) = SomeDue
        /\ Len(store[taskList]) >= Len(tasks) + 2

\* C11: CreateSubtasks is fail-fast: every store call of a call but the last
\* succeeded; when the last one (a get or an insert) failed, an error was
\* returned and no further get or insert is issued, and the subtasks inserted
\* before the failure are still in the store.
C11_CreateSubtasksFailFast ==
    /\ \A k \in 1..(Len(subcalls) - 1) : subcalls[k].ok
    /\ (subcalls # <<>> /\ ~subcalls[Len(subcalls)].ok) =>
          /\ err.kind = "create"
          /\ pc \notin {"getparent", "insert"}
          /\ (li - 1) \in failed
          /\ Len(store[taskList]) = Len(tasks) + Len(OkInserts)
          /\ \A k \in 1..Len(OkInserts) :
                store[taskList][Len(tasks) + k].parent = OkInserts[k].param

\* an insert failed after an insert that succeeded, while a title of the
\* suggestion or a suggestion was still to come
C11_Witness ==
    /\ subcalls # <<>>
    /\ subcalls[Len(subcalls)].op = "insert"
    /\ ~subcalls[Len(subcalls)].ok
    /\ Len(OkInserts) >= 1
    /\ \/ si < Len(suggestions)
       \/ ti < Len(suggestions[si].Subtasks)

\* C12: in the subtask loop of main a failure for one list (list not found,
\* fetch error, suggestion error, get or insert error) is logged, does not end
\* the process, and the loop still enters the iteration of every later target
\* list.
C12_SubtaskLoopContinues ==
    /\ exit = "running"
    /\ \A i \in failed :
          /\ i < li
          /\ i \in visited
          /\ pc = "subfinished" => \A j \in (i + 1)..Len(targetLists) : j \in visited
    /\ pc = "subfinished" => li = Len(targetLists) + 1

\* the pass failed for the first list and created subtasks for the second
C12_Witness ==
    /\ pc = "subfinished"
    /\ 1 \in failed
    /\ 2 \in created
    /\ OkInserts # <<>>

\* a task of the batch has the parent id
HasChildIn(ts, id) == \E i \in 1..Len(ts) : ts[i].parent = id

\* C13 (as claimed): a subtask is inserted under a top-level task of the batch
\* only when no task of the fetched batch has that task as parent.
C13_OnlyChildlessParents ==
    \A k \in 1..Len(subcalls) :
        (/\ subcalls[k].op = "insert"
         /\ subcalls[k].ok
         /\ subcalls[k].param \in TaskIdsOf(TopLevelOf(tasks)))
            => ~HasChildIn(tasks, subcalls[k].param)

\* the kinds of error of one list's re-ordering or subtask pass
PerListErrors == {"find", "fetch", "analyze", "move", "suggest", "create"}

\* C14 (as claimed): the process ends as a failure if and only if a setup step
\* failed; after an error of one list's re-ordering or subtask pass the process
\* goes on and does not end as a failure.
C14_FatalOnlyOnSetupError ==
    /\ exit = "fatal" <=> err.kind = "setup"
    /\ err.kind \in PerListErrors => exit # "fatal"

C16_PriorityRepair ==
    /\ result.called =>
          (result.ok <=> (resp.kind = "array" /\ Len(resp.items) = Len(topLevelTasks)))
    /\ (result.called /\ result.ok) =>
          \A i \in 1..Len(result.recs) :
              LET p == resp.items[i].Priority
                  q == result.recs[i].Priority
              IN  /\ (p < 0 \/ p > 100) => q = 50
                  /\ (p >= 0 /\ p <= 100) => q = p

\* a response with a priority below 0 and a priority of exactly 100 was
\* validated: the first became 50, the second was kept
C16_Witness ==
    /\ result.called /\ result.ok
    /\ \E i \in 1..Len(result.recs) :
          resp.items[i].Priority < 0 /\ result.recs[i].Priority = 50
    /\ \E i \in 1..Len(result.recs) :
          resp.items[i].Priority = 100 /\ result.recs[i].Priority = 100

\* C17: in a validated ranking the i-th record (counted from 1, the array
\* index plus one) whose position string was not exactly 5 characters long has
\* the position 0000i, and a record whose position string was 5 characters
\* long has the position it came with.
C17_PositionRepair ==
    (result.called /\ result.ok) =>
        \A i \in 1..Len(result.recs) :
            LET pos == resp.items[i].NewPosition IN
            result.recs[i].NewPosition =
                (IF Len(pos) = 5 THEN pos ELSE <<0, 0, 0, 0, i>>)

\* the second record of a validated response came with a position of 7
\* characters and has 00002, and a record with 5 letters kept its position
C17_Witness ==
    /\ result.called /\ result.ok
    /\ Len(result.recs) >= 2
    /\ resp.items[2].NewPosition = PosLong
    /\ result.recs[2].NewPosition = <<0, 0, 0, 0, 2>>
    /\ \E i \in 1..Len(result.recs) :
          resp.items[i].NewPosition = PosLetters /\ result.recs[i].NewPosition = PosLetters

\* the subtask pass (AnalyzeAndCreateSubtasks) of the list li - 1 was started
\* and has returned to main
PassEnded == pc \in {"sublookup", "subfinished"} /\ li > 1 /\ result.called

\* the suggestion request and its validation succeeded, and the parent fetch
\* of every suggestion and the insert of every title were issued and succeeded
AllStepsSucceeded ==
    /\ result.ok
    /\ suggestions = result.recs
    /\ \A k \in 1..Len(subcalls) : subcalls[k].ok
    /\ \A s \in 1..Len(suggestions) :
          /\ \E k \in 1..Len(subcalls) : subcalls[k].op = "get" /\ subcalls[k].sugg = s
          /\ Len(InsertsOf(s)) = Len(suggestions[s].Subtasks)

SomeStepFailed == ~result.ok \/ \E k \in 1..Len(subcalls) : ~subcalls[k].ok

\* C18: a list's subtask pass that has returned ended as exactly one of
\* Created (main reported success) and Aborted (main logged an error); Created
\* if and only if the suggestion request, its validation, every parent fetch and
\* every insert succeeded, Aborted if and only if one of them failed; while a
\* pass is issuing store calls it is neither, and no store call follows a
\* failed one.
C18_CreatedOrAborted ==
    /\ created \cap failed = {}
    /\ PassEnded =>
          /\ (li - 1) \in created \cup failed
          /\ (li - 1) \in created <=> AllStepsSucceeded
          /\ (li - 1) \in failed <=> SomeStepFailed
    /\ pc \in {"suggest", "getparent", "insert"} => li \notin created \cup failed
    /\ \A k \in 1..(Len(subcalls) - 1) : subcalls[k].ok

\* a pass with two suggestions and at least two inserts ended as Created
C18_Witness ==
    /\ PassEnded
    /\ (li - 1) \in created
    /\ Len(suggestions) = 2
    /\ Len(OkInserts) >= 2
    /\ \A s \in 1..2 : Len(InsertsOf(s)) >= 1

\* C19 (as claimed): the task ids of a validated ranking are pairwise
\* distinct and are the ids of the submitted batch, and when every move of the
\* list succeeded each submitted task was the subject of exactly one MoveTask
\* call.
C19_EachTaskMovedOnce ==
    /\ priorities # <<>> =>
          /\ \A i, j \in 1..Len(priorities) :
                i # j => priorities[i].TaskID # priorities[j].TaskID
          /\ RangeOf(Ids(priorities)) = TaskIdsOf(topLevelTasks)
    /\ ReplayDone =>
          \A t \in TaskIdsOf(topLevelTasks) :
              Cardinality({k \in 1..Len(moves) : moves[k].task = t /\ moves[k].ok}) = 1

\* C20 (as claimed): in the pause variant every MoveTask call for a task is
\* issued against the list the task was fetched from, and with no predecessor
\* or a predecessor fetched from that same list.
C20_MovesStayInOwnList ==
    \A k \in 1..Len(moves) :
        /\ moves[k].list = moves[k].from
        /\ moves[k].previous # "" => moves[k].previousFrom = moves[k].from

\* the handler of the request has started and has not returned
Handling(h) == hpc[h] \in {"sendCode", "sendErr"}

\* C21 (as claimed): WaitForCallback returns at most one outcome; every
\* handler of a callback request that started eventually returns; and once
\* WaitForCallback has returned the local server eventually stops listening.
C21_CallbackWaitCompletes ==
    /\ [](Len(outcomes) <= 1)
    /\ \A h \in Requests : Handling(h) ~> (hpc[h] = "done")
    /\ (wpc = "returned") ~> (server \in {"closed", "failed"})

====
